---- MODULE Spec2Model ----
(***************************************************************************)
(* The PokerRoom durable object of src/src/index.ts: one room, its         *)
(* sessions, users, join order, reveal flag and deck, and the handlers     *)
(* that handleSession() attaches to every accepted WebSocket.              *)
(*                                                                         *)
(* One action is one event of the room, processed to completion (the       *)
(* platform runs the events of one room one at a time): a connect, one     *)
(* inbound message, a close, a socket error.  Every action contains the    *)
(* broadcastState() call its handler ends with, including the recursive    *)
(* re-broadcast after a failed send.                                       *)
(*                                                                         *)
(* JavaScript values: null is Null, undefined is Undef; a value that may   *)
(* be an object or null/undefined is a record, null being [js |-> "null"]. *)
(* User ids are ordinary strings (not names of Object.prototype members).  *)
(***************************************************************************)
EXTENDS Integers, Sequences, FiniteSets, TLC

(* ------------------------------ bounds --------------------------------- *)
NumIds == 2
NumSockets == 2
MaxFailPass == 2

(* ------------------------------ values --------------------------------- *)
Null == "null"
Undef == "undefined"
None == "none"
JsNull == [js |-> "null"]
\* broadcastState() called without its message argument
NoMessage == [js |-> "undefined"]

IdTable == <<"alice", "bobby", "carol", "david">>
Ids == {IdTable[i] : i \in 1..NumIds}
Sockets == 1..NumSockets

Cards == {"c5"}
DeckIds == {"fibonacci", "tshirt"}
ValidDeck == [id |-> "custom1", name |-> "Mine", cards |-> "array"]

\* `User ${userId.substring(0, 4)}`
DefaultName(userId) ==
    CASE userId = "alice" -> "User alic"
      [] userId = "bobby" -> "User bobb"
      [] userId = "carol" -> "User caro"
      [] userId = "david" -> "User davi"

NewUser(userId, isSpectator) ==
    [id |-> userId, name |-> DefaultName(userId), vote |-> Null,
     avatar |-> Undef, colorId |-> "default", isSpectator |-> isSpectator]

Range(seq) == {seq[i] : i \in 1..Len(seq)}

\* data.<f> of a parsed object: undefined when the key is absent
Get(data, f) == IF f \in DOMAIN data THEN data[f] ELSE Undef

\* the inbound payloads: text that JSON.parse rejects, the JSON text null,
\* and JSON objects
Malformed == [json |-> "invalid"]
JsonNull == [json |-> "null"]
ProfileData ==
    {[type |-> "setProfile"],
     [type |-> "setProfile", name |-> "Ann", avatar |-> "cat", colorId |-> "red"],
     [type |-> "setProfile", name |-> Null],
     [type |-> "setProfile", name |-> ""],
     [type |-> "setProfile", avatar |-> Null, colorId |-> ""]}
DeckPayloads ==
    {ValidDeck, JsNull,
     [id |-> "", name |-> "Mine", cards |-> "array"],
     [id |-> "custom1", name |-> "", cards |-> "array"],
     [id |-> "custom1", name |-> "Mine", cards |-> "string"],
     [id |-> "custom1", name |-> "Mine"]}
Objects ==
    {[type |-> "vote", card |-> c] : c \in Cards \cup {Null}}
    \cup {[type |-> "reveal"], [type |-> "reset"]}
    \cup ProfileData
    \cup {[type |-> "setDeck", deckId |-> d] : d \in DeckIds}
    \cup {[type |-> "setCustomDeck", deck |-> p] : p \in DeckPayloads}
    \cup {[type |-> "setCustomDeck"]}
    \cup {[type |-> "ping"], [card |-> "c5"]}
Payloads == {Malformed, JsonNull} \cup {[json |-> "object", data |-> o] : o \in Objects}

(* ------------------------------- state --------------------------------- *)
VARIABLES
    sessions,          \* this.sessions: sequence of [socket, userId]
    users,             \* this.users: function from the ids present to User
    userList,          \* this.userList: join order
    revealed,          \* this.revealed
    deckId,            \* this.deckId
    activeCustomDeck,  \* this.activeCustomDeck
    listeners,         \* socket -> the userId its handlers closed over, or None
    ev,                \* the event whose handler has run, Idle between events
    before,            \* the room as that handler found it
    log,               \* the sends the handler attempted, in order
    passes,            \* the broadcastState() calls the handler made
    delivered          \* socket -> the last state envelope its send() accepted,
                       \* NoMessage for a socket that is not registered

room == <<sessions, users, userList, revealed, deckId, activeCustomDeck>>
vars == <<sessions, users, userList, revealed, deckId, activeCustomDeck, listeners, ev, before, log, passes, delivered>>

\* the fields broadcastState() reads and writes, as one value
Room == [sessions |-> sessions, users |-> users, userList |-> userList,
         revealed |-> revealed, deckId |-> deckId,
         activeCustomDeck |-> activeCustomDeck, log |-> <<>>, passes |-> 0]

\* mutant: the host is whoever joined first (userList[0])
HostIdFirstJoined(ul, us) == IF ul = <<>> THEN Undef ELSE Head(ul)

\* this.userList.find(id => this.users[id] && !this.users[id].isSpectator)
HostId(ul, us) ==
    LET ok == SelectSeq(ul, LAMBDA id : id \in DOMAIN us /\ ~us[id].isSpectator)
    IN  IF ok = <<>> THEN Undef ELSE Head(ok)

\* JSON.stringify of a User: keys whose value is undefined are left out
JsonUser(u) ==
    LET keys == {"id", "name", "colorId", "isSpectator"}
                \cup (IF u.vote = Undef THEN {} ELSE {"vote"})
                \cup (IF u.avatar = Undef THEN {} ELSE {"avatar"})
    IN  [k \in keys |-> u[k]]

\* mutant: the envelope lists the voters before the spectators
StateMessageVotersFirst(st) ==
    LET present == SelectSeq(st.userList, LAMBDA id : id \in DOMAIN st.users)
        sorted == SelectSeq(present, LAMBDA id : ~st.users[id].isSpectator)
                  \o SelectSeq(present, LAMBDA id : st.users[id].isSpectator)
    IN  [type |-> "state",
         users |-> [i \in 1..Len(sorted) |-> JsonUser(st.users[sorted[i]])],
         revealed |-> st.revealed,
         deckId |-> st.deckId,
         activeCustomDeck |-> st.activeCustomDeck]

\* the state envelope built by broadcastState()
StateMessage(st) ==
    LET present == SelectSeq(st.userList, LAMBDA id : id \in DOMAIN st.users)
    IN  [type |-> "state",
         users |-> [i \in 1..Len(present) |-> JsonUser(st.users[present[i]])],
         revealed |-> st.revealed,
         deckId |-> st.deckId,
         activeCustomDeck |-> st.activeCustomDeck]

ErrorMessage(text) == [error |-> text]

\* mutant: the loop over the users is missing
ClearVotesSkipped(us) == us

\* for (const u of Object.values(this.users)) u.vote = null
ClearVotes(us) == [id \in DOMAIN us |-> [us[id] EXCEPT !.vote = Null]]

\* delete this.users[userId]
DeleteUser(us, userId) == [id \in DOMAIN us \ {userId} |-> us[id]]

\* mutant: the first send() that throws ends the loop
RECURSIVE SendLoop(_, _, _, _, _)
SendLoopStopsAtFailure(ss, i, message, pass, broken) ==
    IF i > Len(ss) THEN [log |-> <<>>, dead |-> <<>>]
    ELSE LET ok == ss[i].socket \notin broken
             entry == [pass |-> pass, to |-> ss[i].socket, msg |-> message, ok |-> ok]
         IN  IF ok
             THEN LET rest == SendLoop(ss, i + 1, message, pass, broken)
                  IN  [log |-> <<entry>> \o rest.log, dead |-> rest.dead]
             ELSE [log |-> <<entry>>, dead |-> <<ss[i]>>]

\* this.sessions.forEach(session => { try { send } catch { deadSessions.push } })
\* broken: the sockets whose send() throws
SendLoop(ss, i, message, pass, broken) ==
    IF i > Len(ss) THEN [log |-> <<>>, dead |-> <<>>]
    ELSE LET rest == SendLoop(ss, i + 1, message, pass, broken)
             ok == ss[i].socket \notin broken
             entry == [pass |-> pass, to |-> ss[i].socket, msg |-> message, ok |-> ok]
         IN  [log |-> <<entry>> \o rest.log,
              dead |-> IF ok THEN rest.dead ELSE <<ss[i]>> \o rest.dead]

\* mutant: the user of a dead session is deleted, other sessions or not
RECURSIVE RemoveDead(_, _, _)
RemoveDeadUser(st, dead, i) ==
    IF i > Len(dead) THEN st
    ELSE RemoveDead([st EXCEPT !.users = DeleteUser(@, dead[i].userId),
                               !.userList = SelectSeq(@, LAMBDA id : id # dead[i].userId)],
                    dead, i + 1)

\* deadSessions.forEach(s => { if no other session of s.userId: delete user })
RemoveDead(st, dead, i) ==
    IF i > Len(dead) THEN st
    ELSE LET s == dead[i]
             userHasOtherSessions == \E k \in 1..Len(st.sessions) : st.sessions[k].userId = s.userId
             st2 == IF userHasOtherSessions THEN st
                    ELSE [st EXCEPT !.users = DeleteUser(@, s.userId),
                                    !.userList = SelectSeq(@, LAMBDA id : id # s.userId)]
         IN  RemoveDead(st2, dead, i + 1)

\* mutant: dead sessions are dropped, the new state is not broadcast again
RECURSIVE BroadcastState(_, _, _, _)
BroadcastStateOnce(st, message, failAt, pass) ==
    LET msg == IF message = NoMessage THEN StateMessage(st) ELSE message
        broken == {s \in Sockets : failAt[s] # 0 /\ failAt[s] <= pass}
        sent == SendLoop(st.sessions, 1, msg, pass, broken)
        st1 == [st EXCEPT !.log = @ \o sent.log, !.passes = @ + 1]
    IN  IF Len(sent.dead) > 0
        THEN RemoveDead([st1 EXCEPT !.sessions = SelectSeq(@, LAMBDA s : s \notin Range(sent.dead))],
                        sent.dead, 1)
        ELSE st1

\* broadcastState(message?): failAt[s] = k > 0 means that send() on socket s
\* throws from the k-th pass of this event on
BroadcastState(st, message, failAt, pass) ==
    LET msg == IF message = NoMessage THEN StateMessage(st) ELSE message
        broken == {s \in Sockets : failAt[s] # 0 /\ failAt[s] <= pass}
        sent == SendLoop(st.sessions, 1, msg, pass, broken)
        st1 == [st EXCEPT !.log = @ \o sent.log, !.passes = @ + 1]
    IN  IF Len(sent.dead) > 0
        THEN LET st2 == [st1 EXCEPT !.sessions = SelectSeq(@, LAMBDA s : s \notin Range(sent.dead))]
             IN  BroadcastState(RemoveDead(st2, sent.dead, 1), NoMessage, failAt, pass + 1)
        ELSE st1

NoFail == [s \in Sockets |-> 0]

\* the send failures one event can meet on the sockets it may send to: no
\* pass number is skipped (a pass without a failure is the last one)
FailPatterns(socks) ==
    {f \in [Sockets -> 0..MaxFailPass] :
        /\ \A s \in Sockets : f[s] # 0 => s \in socks
        /\ \A s \in Sockets : f[s] > 1 => \E t \in Sockets : f[t] = f[s] - 1}

SocketsOf(ss) == {ss[i].socket : i \in 1..Len(ss)}

Idle == [kind |-> "idle"]

Commit(st) ==
    /\ sessions' = st.sessions
    /\ users' = st.users
    /\ userList' = st.userList
    /\ revealed' = st.revealed
    /\ deckId' = st.deckId
    /\ activeCustomDeck' = st.activeCustomDeck
    /\ log' = st.log
    /\ passes' = st.passes
    /\ delivered' = [s \in Sockets |->
          LET got == {i \in 1..Len(st.log) :
                         /\ st.log[i].to = s /\ st.log[i].ok /\ st.log[i].pass >= 1
                         /\ "type" \in DOMAIN st.log[i].msg}
          IN  IF ~\E i \in 1..Len(st.sessions) : st.sessions[i].socket = s
              THEN NoMessage
              ELSE IF got = {}
              THEN delivered[s]
              ELSE st.log[CHOOSE i \in got : \A k \in got : k <= i].msg]

\* a JavaScript value used as a condition
Truthy(v) == v \notin {Undef, Null, ""}

\* catch (err) { socket.send(JSON.stringify({ error: errorMessage })) }
\* errFail: this send() throws, and the exception leaves the handler
Catch(st, socket, text, errFail) ==
    [st EXCEPT !.log = @ \o <<[pass |-> 0, to |-> socket,
                               msg |-> ErrorMessage(text), ok |-> ~errFail]>>]

\* mutant: no spectator check
VoteBySpectatorToo(st, userId, data, failAt) ==
    BroadcastState([st EXCEPT !.users[userId].vote = Get(data, "card")], NoMessage, failAt, 1)

\* mutant: votes are closed once the cards are revealed
VoteWhileHidden(st, userId, data, failAt) ==
    IF st.users[userId].isSpectator \/ st.revealed THEN st
    ELSE BroadcastState([st EXCEPT !.users[userId].vote = Get(data, "card")],
                        NoMessage, failAt, 1)

\* case 'vote'
Vote(st, userId, data, failAt) ==
    IF st.users[userId].isSpectator THEN st
    ELSE BroadcastState([st EXCEPT !.users[userId].vote = Get(data, "card")],
                        NoMessage, failAt, 1)

\* mutant: reveal without the host check
RevealByAnyone(st, isHost, failAt) ==
    BroadcastState([st EXCEPT !.revealed = TRUE], NoMessage, failAt, 1)

\* case 'reveal'
Reveal(st, isHost, failAt) ==
    IF isHost THEN BroadcastState([st EXCEPT !.revealed = TRUE], NoMessage, failAt, 1)
    ELSE st

\* mutant: reset without the host check
ResetByAnyone(st, isHost, failAt) ==
    BroadcastState([st EXCEPT !.revealed = FALSE, !.users = ClearVotes(@)], NoMessage, failAt, 1)

\* case 'reset'
Reset(st, isHost, failAt) ==
    IF isHost
    THEN BroadcastState([st EXCEPT !.revealed = FALSE, !.users = ClearVotes(@)],
                        NoMessage, failAt, 1)
    ELSE st

\* mutant: avatar and colorId are written without the 'in' tests
SetProfileAllFields(st, userId, data, failAt) ==
    LET user == st.users[userId]
        u1 == IF Truthy(Get(data, "name")) THEN [user EXCEPT !.name = data.name] ELSE user
        u2 == [u1 EXCEPT !.avatar = IF Truthy(Get(data, "avatar")) THEN data.avatar ELSE Undef]
        u3 == [u2 EXCEPT !.colorId = IF Truthy(Get(data, "colorId")) THEN data.colorId
                                     ELSE "default"]
    IN  BroadcastState([st EXCEPT !.users[userId] = u3], NoMessage, failAt, 1)

\* mutant: the profile changes and nobody is told
SetProfileQuiet(st, userId, data, failAt) ==
    LET user == st.users[userId]
        u1 == IF Truthy(Get(data, "name")) THEN [user EXCEPT !.name = data.name] ELSE user
        u2 == IF "avatar" \in DOMAIN data
              THEN [u1 EXCEPT !.avatar = IF Truthy(data.avatar) THEN data.avatar ELSE Undef]
              ELSE u1
        u3 == IF "colorId" \in DOMAIN data
              THEN [u2 EXCEPT !.colorId = IF Truthy(data.colorId) THEN data.colorId ELSE "default"]
              ELSE u2
    IN  [st EXCEPT !.users[userId] = u3]

\* case 'setProfile'
SetProfile(st, userId, data, failAt) ==
    LET user == st.users[userId]
        u1 == IF Truthy(Get(data, "name")) THEN [user EXCEPT !.name = data.name] ELSE user
        u2 == IF "avatar" \in DOMAIN data
              THEN [u1 EXCEPT !.avatar = IF Truthy(data.avatar) THEN data.avatar ELSE Undef]
              ELSE u1
        u3 == IF "colorId" \in DOMAIN data
              THEN [u2 EXCEPT !.colorId = IF Truthy(data.colorId) THEN data.colorId ELSE "default"]
              ELSE u2
    IN  BroadcastState([st EXCEPT !.users[userId] = u3], NoMessage, failAt, 1)

\* mutant: the deck changes, the round goes on
SetDeckKeepsRound(st, isHost, data, failAt) ==
    IF isHost
    THEN BroadcastState([st EXCEPT !.deckId = Get(data, "deckId"),
                                   !.activeCustomDeck = JsNull],
                        NoMessage, failAt, 1)
    ELSE st

\* mutant: the custom deck stays when a built-in deck is chosen
SetDeckKeepsCustom(st, isHost, data, failAt) ==
    IF isHost
    THEN BroadcastState([st EXCEPT !.deckId = Get(data, "deckId"),
                                   !.revealed = FALSE,
                                   !.users = ClearVotes(@)],
                        NoMessage, failAt, 1)
    ELSE st

\* case 'setDeck'
SetDeck(st, isHost, data, failAt) ==
    IF isHost
    THEN BroadcastState([st EXCEPT !.deckId = Get(data, "deckId"),
                                   !.activeCustomDeck = JsNull,
                                   !.revealed = FALSE,
                                   !.users = ClearVotes(@)],
                        NoMessage, failAt, 1)
    ELSE st

\* mutant: the cards are not looked at
ValidCustomDeckAnyCards(data) ==
    /\ "deck" \in DOMAIN data
    /\ "js" \notin DOMAIN data.deck
    /\ Truthy(Get(data.deck, "id"))
    /\ Truthy(Get(data.deck, "name"))

\* deck && deck.id && deck.name && Array.isArray(deck.cards)
ValidCustomDeck(data) ==
    /\ "deck" \in DOMAIN data
    /\ "js" \notin DOMAIN data.deck
    /\ Truthy(Get(data.deck, "id"))
    /\ Truthy(Get(data.deck, "name"))
    /\ Get(data.deck, "cards") = "array"

\* case 'setCustomDeck'
SetCustomDeck(st, isHost, data, failAt) ==
    IF isHost /\ ValidCustomDeck(data)
    THEN BroadcastState([st EXCEPT !.activeCustomDeck = data.deck,
                                   !.deckId = data.deck.id,
                                   !.revealed = FALSE,
                                   !.users = ClearVotes(@)],
                        NoMessage, failAt, 1)
    ELSE st

\* switch (data.type)
Switch(st, userId, data, failAt) ==
    LET hostId == HostId(st.userList, st.users)
        isHost == hostId = userId
        type == Get(data, "type")
    IN  CASE type = "vote" -> Vote(st, userId, data, failAt)
          [] type = "reveal" -> Reveal(st, isHost, failAt)
          [] type = "reset" -> Reset(st, isHost, failAt)
          [] type = "setProfile" -> SetProfile(st, userId, data, failAt)
          [] type = "setDeck" -> SetDeck(st, isHost, data, failAt)
          [] type = "setCustomDeck" -> SetCustomDeck(st, isHost, data, failAt)
          [] OTHER -> st

\* mutant: the parse error is broadcast to every session
MessageHandlerTellsAll(st, socket, userId, raw, failAt, errFail) ==
    IF raw.json = "invalid"
    THEN BroadcastState(st, ErrorMessage("SyntaxError"), failAt, 1)
    ELSE IF userId \notin DOMAIN st.users
    THEN st
    ELSE IF raw.json = "null"
    THEN Catch(st, socket, "TypeError", errFail)
    ELSE Switch(st, userId, raw.data, failAt)

\* the "message" listener of one socket
MessageHandler(st, socket, userId, raw, failAt, errFail) ==
    IF raw.json = "invalid"
    THEN Catch(st, socket, "SyntaxError", errFail)
    ELSE IF userId \notin DOMAIN st.users
    THEN st
    ELSE IF raw.json = "null"
    THEN Catch(st, socket, "TypeError", errFail)
    ELSE Switch(st, userId, raw.data, failAt)

\* mutant: the user leaves with any of its sockets
CloseHandlerDropsUser(st, socket, userId, failAt) ==
    BroadcastState([st EXCEPT !.sessions = SelectSeq(@, LAMBDA s : s.socket # socket),
                              !.users = DeleteUser(@, userId),
                              !.userList = SelectSeq(@, LAMBDA id : id # userId)],
                   NoMessage, failAt, 1)

\* the "close" listener of one socket
CloseHandler(st, socket, userId, failAt) ==
    LET ss == SelectSeq(st.sessions, LAMBDA s : s.socket # socket)
        st1 == [st EXCEPT !.sessions = ss]
        st2 == IF ~\E i \in 1..Len(ss) : ss[i].userId = userId
               THEN [st1 EXCEPT !.users = DeleteUser(@, userId),
                                !.userList = SelectSeq(@, LAMBDA id : id # userId)]
               ELSE st1
    IN  BroadcastState(st2, NoMessage, failAt, 1)

\* mutant: the id is pushed to the join order on every connect
RegisterAlwaysAppends(st, socket, userId, isSpectator, failAt) ==
    LET st1 == [st EXCEPT !.sessions = Append(@, [socket |-> socket, userId |-> userId]),
                          !.userList = Append(@, userId)]
        st2 == IF userId \notin DOMAIN st1.users
               THEN [st1 EXCEPT !.users = @ @@ (userId :> NewUser(userId, isSpectator))]
               ELSE st1
    IN  BroadcastState(st2, NoMessage, failAt, 1)

\* mutant: a reconnect takes over the spectator flag of the new connection
RegisterUpdatesSpectator(st, socket, userId, isSpectator, failAt) ==
    LET st1 == [st EXCEPT !.sessions = Append(@, [socket |-> socket, userId |-> userId])]
        st2 == IF userId \notin DOMAIN st1.users
               THEN [st1 EXCEPT !.users = @ @@ (userId :> NewUser(userId, isSpectator)),
                                !.userList = Append(@, userId)]
               ELSE [st1 EXCEPT !.users[userId].isSpectator = isSpectator]
    IN  BroadcastState(st2, NoMessage, failAt, 1)

\* handleSession() up to the point where the listeners are attached
Register(st, socket, userId, isSpectator, failAt) ==
    LET st1 == [st EXCEPT !.sessions = Append(@, [socket |-> socket, userId |-> userId])]
        st2 == IF userId \notin DOMAIN st1.users
               THEN [st1 EXCEPT !.users = @ @@ (userId :> NewUser(userId, isSpectator)),
                                !.userList = Append(@, userId)]
               ELSE st1
    IN  BroadcastState(st2, NoMessage, failAt, 1)

(* ------------------------------ actions -------------------------------- *)
Init ==
    /\ sessions = <<>>
    /\ users = [id \in {} |-> Null]
    /\ userList = <<>>
    /\ revealed = FALSE
    /\ deckId = "fibonacci"
    /\ activeCustomDeck = JsNull
    /\ listeners = [s \in Sockets |-> None]
    /\ ev = Idle
    /\ before = Room
    /\ log = <<>>
    /\ passes = 0
    /\ delivered = [s \in Sockets |-> NoMessage]

\* fetch() with a userId and an Upgrade: websocket header; the server end of
\* the new WebSocketPair is a socket no listener of the room refers to
HandleSession ==
    /\ ev = Idle
    /\ \E s \in Sockets : listeners[s] = None
    /\ LET socket == CHOOSE s \in Sockets :
                        listeners[s] = None /\ \A t \in Sockets : listeners[t] = None => s <= t
       IN  \E userId \in Ids, isSpectator \in BOOLEAN,
              failAt \in FailPatterns(SocketsOf(sessions) \cup {socket}) :
              /\ Commit(Register(Room, socket, userId, isSpectator, failAt))
              /\ listeners' = [listeners EXCEPT ![socket] = userId]
              /\ ev' = [kind |-> "connect", socket |-> socket, userId |-> userId,
                        isSpectator |-> isSpectator]
              /\ before' = Room

\* one inbound message on a socket whose listeners are attached; errFail: the
\* send() of the catch block throws
OnMessage(socket) ==
    /\ ev = Idle
    /\ listeners[socket] # None
    /\ \E raw \in Payloads, failAt \in FailPatterns(SocketsOf(sessions)), errFail \in BOOLEAN :
          /\ failAt # NoFail => raw.json = "object"
          /\ errFail => raw.json # "object"
          /\ Commit(MessageHandler(Room, socket, listeners[socket], raw, failAt, errFail))
          /\ ev' = [kind |-> "message", socket |-> socket, userId |-> listeners[socket],
                    raw |-> raw]
          /\ before' = Room
          /\ UNCHANGED listeners

\* the close event of a socket; no event of that socket follows it
OnClose(socket) ==
    /\ ev = Idle
    /\ listeners[socket] # None
    /\ \E failAt \in FailPatterns(SocketsOf(sessions) \ {socket}) :
          /\ Commit(CloseHandler(Room, socket, listeners[socket], failAt))
          /\ listeners' = [listeners EXCEPT ![socket] = None]
          /\ ev' = [kind |-> "close", socket |-> socket, userId |-> listeners[socket]]
          /\ before' = Room

\* the "error" listener only logs
OnError(socket) ==
    /\ ev = Idle
    /\ listeners[socket] # None
    /\ ev' = [kind |-> "error", socket |-> socket, userId |-> listeners[socket]]
    /\ before' = Room
    /\ log' = <<>>
    /\ passes' = 0
    /\ UNCHANGED <<room, listeners, delivered>>

\* the handler returns; the room waits for its next event
Return ==
    /\ ev # Idle
    /\ ev' = Idle
    /\ before' = Room
    /\ log' = <<>>
    /\ passes' = 0
    /\ UNCHANGED <<room, listeners, delivered>>

Next ==
    \/ HandleSession
    \/ \E socket \in Sockets : OnMessage(socket)
    \/ \E socket \in Sockets : OnClose(socket)
    \/ \E socket \in Sockets : OnError(socket)
    \/ Return

Spec == Init /\ [][Next]_vars

\* broadcastState(message) called with a message: no handler of the room
\* does so, the method allows it.  The room is between two events.
BroadcastRaw ==
    /\ ev = Idle
    /\ sessions # <<>>
    /\ \E failAt \in FailPatterns(SocketsOf(sessions)) :
          /\ Commit(BroadcastState(Room, ErrorMessage("notice"), failAt, 1))
          /\ ev' = [kind |-> "raw"]
          /\ before' = Room
          /\ UNCHANGED listeners

\* the room with such calls between its events
NextRaw ==
    \/ Next
    \/ BroadcastRaw

SpecRaw == Init /\ [][NextRaw]_vars

(* ----------------------- reading the last event ------------------------ *)
IsMessage == ev.kind = "message"
IsCommand(type) ==
    IsMessage /\ ev.raw.json = "object" /\ Get(ev.raw.data, "type") = type
Data == ev.raw.data

\* id is the first id in join order ul whose participant is not a spectator
FirstNonSpectator(id, ul, us) ==
    \E i \in 1..Len(ul) :
        /\ ul[i] = id
        /\ id \in DOMAIN us
        /\ ~us[id].isSpectator
        /\ \A j \in 1..(i - 1) : ul[j] \in DOMAIN us /\ us[ul[j]].isSpectator

SenderIsParticipant == IsMessage /\ ev.userId \in DOMAIN before.users
SenderIsHost ==
    IsMessage /\ FirstNonSpectator(ev.userId, before.userList, before.users)

\* nothing of the room changed and nothing was sent
Untouched == Room = before /\ log = <<>>
StateSent == \E i \in 1..Len(log) : log[i].pass >= 1 /\ "type" \in DOMAIN log[i].msg
ErrorSent == \E i \in 1..Len(log) : "error" \in DOMAIN log[i].msg
FailedSockets == {log[i].to : i \in {k \in 1..Len(log) : ~log[k].ok}}
AllVotesNull == \A id \in DOMAIN users : users[id].vote = Null

\* a setCustomDeck whose payload passes the handler's checks
CustomDeckCommand ==
    IsCommand("setCustomDeck") /\ "deck" \in DOMAIN Data /\ Data.deck = ValidDeck

Privileged ==
    IsCommand("reveal") \/ IsCommand("reset") \/ IsCommand("setDeck") \/ CustomDeckCommand

\* what each privileged command does when it is applied
TookEffect ==
    /\ StateSent
    /\ IsCommand("reveal") => revealed
    /\ IsCommand("reset") => ~revealed /\ AllVotesNull
    /\ IsCommand("setDeck") =>
          /\ deckId = Data.deckId /\ activeCustomDeck = JsNull
          /\ ~revealed /\ AllVotesNull
    /\ CustomDeckCommand =>
          /\ deckId = Data.deck.id /\ activeCustomDeck = Data.deck
          /\ ~revealed /\ AllVotesNull

(* ------------------------------- claims -------------------------------- *)

\* C1: a privileged command (reveal, reset, setDeck, setCustomDeck with a
\* valid payload) takes effect if and only if its sender is the first id in
\* join order whose participant is not a spectator, in every state the room
\* reaches by connects, closes and send failures; from any other sender, and
\* in a room with no non-spectator, it changes nothing and sends nothing.
C1_HostIffFirstNonSpectator ==
    Privileged => IF SenderIsHost THEN TookEffect ELSE Untouched

\* a reveal applied for a host that joined after a spectator
C1_Witness ==
    /\ IsCommand("reveal")
    /\ SenderIsHost
    /\ before.userList[1] # ev.userId
    /\ ~before.revealed
    /\ revealed

\* C2: when the host's setDeck, or the host's setCustomDeck with a valid
\* payload, is applied, revealed is false and every participant's vote is
\* null afterwards, whatever the flag and the votes were before.
C2_DeckChangeStartsRound ==
    (IsCommand("setDeck") \/ CustomDeckCommand) /\ SenderIsHost
        => ~revealed /\ AllVotesNull

\* a deck change applied while the votes were revealed and one was cast
C2_Witness ==
    /\ IsCommand("setDeck")
    /\ SenderIsHost
    /\ before.revealed
    /\ \E id \in DOMAIN before.users : before.users[id].vote # Null
    /\ Cardinality(DOMAIN users) = 2

\* C3: a vote sent by a participant whose spectator flag is true changes no
\* vote and nothing else of the room, and no state or error envelope is sent.
C3_SpectatorVoteIgnored ==
    IsCommand("vote") /\ SenderIsParticipant /\ before.users[ev.userId].isSpectator
        => Untouched

\* a spectator has sent a card while another participant holds a vote
C3_Witness ==
    /\ IsCommand("vote")
    /\ SenderIsParticipant
    /\ before.users[ev.userId].isSpectator
    /\ Data.card = "c5"
    /\ Cardinality(DOMAIN users) = 2

\* the ids that own one of the sessions ss
Owners(ss) == {ss[i].userId : i \in 1..Len(ss)}
Registered(socket, ss) == \E i \in 1..Len(ss) : ss[i].socket = socket

\* the sessions left of the handler's sessions, then the participants left:
\* every session that threw on send() is unregistered, and with it each
\* participant that owns no session any more; whoever stays keeps its place
OnlyFailuresRemoved(ss, order) ==
    /\ sessions = SelectSeq(ss, LAMBDA s : s.socket \notin FailedSockets)
    /\ DOMAIN users = Owners(sessions)
    /\ userList = SelectSeq(order, LAMBDA id : id \in Owners(sessions))

DeckAndRevealKept ==
    /\ revealed = before.revealed
    /\ deckId = before.deckId
    /\ activeCustomDeck = before.activeCustomDeck

VoteOfParticipant ==
    IsCommand("vote") /\ SenderIsParticipant /\ ~before.users[ev.userId].isSpectator

\* C4 as stated: a vote of a non-spectator sets that participant's vote to
\* the supplied card and leaves every other vote, the reveal flag, the deck,
\* the join order and the session set unchanged.
C4_Original ==
    VoteOfParticipant =>
        /\ users = [before.users EXCEPT ![ev.userId].vote = Data.card]
        /\ DeckAndRevealKept
        /\ userList = before.userList
        /\ sessions = before.sessions

\* C4, amended: a vote of a non-spectator, revealed or not, leaves the reveal
\* flag and the deck unchanged; the sessions that throw on send() during its
\* broadcast are unregistered, together with each participant left without a
\* session; of the participants that remain the sender has the supplied card
\* as its vote (null clears it), every other record is unchanged, and the
\* join order keeps them in their order. With no failed send this is the
\* claim as stated.
C4_VoteFrame ==
    VoteOfParticipant =>
        /\ DeckAndRevealKept
        /\ OnlyFailuresRemoved(before.sessions, before.userList)
        /\ \A id \in DOMAIN users :
              users[id] = IF id = ev.userId
                          THEN [before.users[id] EXCEPT !.vote = Data.card]
                          ELSE before.users[id]
        /\ FailedSockets = {} =>
              /\ users = [before.users EXCEPT ![ev.userId].vote = Data.card]
              /\ userList = before.userList
              /\ sessions = before.sessions

\* a card voted after the reveal, next to another participant
C4_Witness ==
    /\ VoteOfParticipant
    /\ before.revealed
    /\ Data.card = "c5"
    /\ before.users[ev.userId].vote = Null
    /\ FailedSockets = {}
    /\ Cardinality(DOMAIN users) = 2
    /\ users[ev.userId].vote = "c5"

CloseOfSession == ev.kind = "close" /\ Registered(ev.socket, before.sessions)
OtherSessions ==
    SelectSeq(before.sessions, LAMBDA s : s.socket # ev.socket)
WasOnlySession == ev.userId \notin Owners(OtherSessions)
Gone(id) == id \notin DOMAIN users /\ id \notin Range(userList)

\* C5 as stated: the close of a participant's only session removes it from
\* the map and the join order; the close of one of several sessions leaves
\* its record and its place unchanged and removes only that session.
C5_Original ==
    CloseOfSession =>
        IF WasOnlySession THEN Gone(ev.userId)
        ELSE /\ ev.userId \in DOMAIN users
             /\ users[ev.userId] = before.users[ev.userId]
             /\ userList = before.userList
             /\ sessions = OtherSessions

\* C5, amended: the close of a participant's only session removes it from
\* the map and the join order. The close of one of several sessions removes
\* that session, and besides it only the sessions that throw on send() during
\* the broadcast that follows: the participant keeps its record and its place
\* among the remaining participants if one of its sessions is left, and is
\* removed from both if none is. With no failed send the second half is the
\* claim as stated.
C5_CloseFrame ==
    CloseOfSession =>
        /\ OnlyFailuresRemoved(OtherSessions, before.userList)
        /\ WasOnlySession => Gone(ev.userId)
        /\ ~WasOnlySession =>
              IF ev.userId \in Owners(sessions)
              THEN users[ev.userId] = before.users[ev.userId]
              ELSE Gone(ev.userId)
        /\ ~WasOnlySession /\ FailedSockets = {} =>
              /\ users = before.users
              /\ userList = before.userList
              /\ sessions = OtherSessions

\* one of the two sessions of a participant with a vote and a profile closes
C5_Witness ==
    /\ CloseOfSession
    /\ ~WasOnlySession
    /\ before.users[ev.userId].vote = "c5"
    /\ before.users[ev.userId].name = "Ann"
    /\ FailedSockets = {}
    /\ Len(sessions) = 1

\* per pass of the last event: where a send was attempted, where it threw
Targets(p) == {log[i].to : i \in {k \in 1..Len(log) : log[k].pass = p}}
Failed(p) == {log[i].to : i \in {k \in 1..Len(log) : log[k].pass = p /\ ~log[k].ok}}

\* C6: a call of broadcastState terminates for every pattern of send
\* failures: a pass that saw a failure is followed by a pass over strictly
\* fewer sessions (the ones that did not fail), the last pass saw no failure
\* (it may run over no session at all), and there are at most as many passes
\* as sessions plus one.
C6_BroadcastTerminates ==
    passes >= 1 =>
        /\ \A p \in 1..(passes - 1) :
              /\ Failed(p) # {}
              /\ Targets(p + 1) = Targets(p) \ Failed(p)
              /\ Cardinality(Targets(p + 1)) < Cardinality(Targets(p))
        /\ Failed(passes) = {}
        /\ Targets(passes) = SocketsOf(sessions)
        /\ passes <= Cardinality(Targets(1)) + 1

\* a broadcast of three passes: a failure in the first, a failure in the
\* second, none in the third, which runs over no session
C6_Witness ==
    /\ passes = 3
    /\ Cardinality(Targets(1)) = 2
    /\ Cardinality(Targets(2)) = 1
    /\ sessions = <<>>

\* the join order the broadcast of the last event started from
OrderAtBroadcast ==
    IF ev.kind = "connect" /\ ev.userId \notin DOMAIN before.users
    THEN Append(before.userList, ev.userId)
    ELSE before.userList

\* the last state envelope socket s accepted during the last event
Delivered(s) == {i \in 1..Len(log) : log[i].to = s /\ log[i].ok /\ log[i].pass >= 1}
LastDelivered(s) ==
    log[CHOOSE i \in Delivered(s) : \A k \in Delivered(s) : k <= i].msg
IdsOf(message) == [i \in 1..Len(message.users) |-> message.users[i].id]

C8_MalformedJson ==
    IsMessage /\ ev.raw = Malformed =>
        /\ Len(log) = 1
        /\ log[1].to = ev.socket
        /\ "error" \in DOMAIN log[1].msg
        /\ ~StateSent
        /\ passes = 0
        /\ Room = before

\* malformed text on one of two sessions of the same participant
C8_Witness ==
    /\ IsMessage
    /\ ev.raw = Malformed
    /\ Len(sessions) = 2
    /\ Cardinality(Owners(sessions)) = 1
    /\ Len(log) = 1
    /\ log[1].ok

\* C9: reveal, reset, setDeck and setCustomDeck from a participant that is
\* not the host leave the room and the sessions unchanged and send nothing,
\* neither a state envelope nor an error envelope.
C9_NonHostCommandIgnored ==
    /\ SenderIsParticipant
    /\ ~SenderIsHost
    /\ IsCommand("reveal") \/ IsCommand("reset") \/ IsCommand("setDeck")
          \/ IsCommand("setCustomDeck")
    => Untouched

\* a reset from the second of two voters while the votes are revealed
C9_Witness ==
    /\ IsCommand("reset")
    /\ SenderIsParticipant
    /\ ~before.users[ev.userId].isSpectator
    /\ ~SenderIsHost
    /\ before.revealed
    /\ \E id \in DOMAIN users : users[id].vote = "c5"

\* what made the reveal flag change in the last event
RevealCause ==
    /\ SenderIsHost
    /\ IF revealed THEN IsCommand("reveal")
       ELSE IsCommand("reset") \/ IsCommand("setDeck") \/ CustomDeckCommand

\* C10: a new room is hidden, on 'fibonacci', without custom deck and without
\* participants; afterwards the reveal flag goes from false to true only by
\* a reveal of the current host and from true to false only by a reset,
\* setDeck or valid setCustomDeck of the current host, and by nothing else.
C10_RevealFlag ==
    /\ ~revealed /\ deckId = "fibonacci" /\ activeCustomDeck = JsNull
    /\ DOMAIN users = {} /\ userList = <<>> /\ sessions = <<>>
    /\ [][revealed' # revealed => RevealCause']_vars

\* the host resets a revealed round
C10_Witness ==
    /\ IsCommand("reset")
    /\ SenderIsHost
    /\ before.revealed
    /\ ~revealed

ResetOfHost == IsCommand("reset") /\ SenderIsHost

\* C11 as stated: a reset of the host sets revealed=false and every
\* participant's vote to null and leaves the deck, the profiles and spectator
\* flags, the join order and the session set unchanged.
C11_Original ==
    ResetOfHost =>
        /\ ~revealed
        /\ users = [id \in DOMAIN before.users |-> [before.users[id] EXCEPT !.vote = Null]]
        /\ deckId = before.deckId /\ activeCustomDeck = before.activeCustomDeck
        /\ userList = before.userList
        /\ sessions = before.sessions

\* C11, amended: a reset of the host sets revealed=false and leaves the deck
\* id and the custom deck unchanged; the sessions that throw on send() during
\* its broadcast are unregistered, together with each participant left
\* without a session; every participant that remains, voter or not, has a
\* null vote and its profile and spectator flag as before, and the join order
\* keeps them in their order. With no failed send this is the claim as
\* stated.
C11_ResetFrame ==
    ResetOfHost =>
        /\ ~revealed
        /\ deckId = before.deckId /\ activeCustomDeck = before.activeCustomDeck
        /\ OnlyFailuresRemoved(before.sessions, before.userList)
        /\ \A id \in DOMAIN users : users[id] = [before.users[id] EXCEPT !.vote = Null]
        /\ FailedSockets = {} =>
              /\ DOMAIN users = DOMAIN before.users
              /\ userList = before.userList
              /\ sessions = before.sessions

\* the host resets a revealed round on a custom deck in which the host has
\* voted and the other participant, with a profile, has not
C11_Witness ==
    /\ ResetOfHost
    /\ before.revealed
    /\ before.activeCustomDeck = ValidDeck
    /\ before.users[ev.userId].vote = "c5"
    /\ \E id \in DOMAIN users : id # ev.userId /\ before.users[id].vote = Null
                                /\ users[id].name = "Ann"
    /\ FailedSockets = {}

ProfileCommand == IsCommand("setProfile") /\ SenderIsParticipant
Has(f) == f \in DOMAIN Data
Cleared(f) == Has(f) /\ Data[f] \in {Null, ""}
Others == DOMAIN users \ {ev.userId}

\* C12 as stated: setProfile changes only the sender's name, avatar and
\* colorId; each of the three is left unchanged when absent from the message
\* and reset to its default when present with null or an empty value; no
\* other record, no vote and no reveal or deck field changes.
C12_Original ==
    ProfileCommand =>
        /\ DeckAndRevealKept
        /\ \A id \in Others : users[id] = before.users[id]
        /\ ev.userId \in DOMAIN users =>
              users[ev.userId] =
                  [before.users[ev.userId] EXCEPT
                      !.name = IF ~Has("name") THEN @
                               ELSE IF Cleared("name") THEN DefaultName(ev.userId)
                               ELSE Data.name,
                      !.avatar = IF ~Has("avatar") THEN @
                                 ELSE IF Cleared("avatar") THEN Undef ELSE Data.avatar,
                      !.colorId = IF ~Has("colorId") THEN @
                                  ELSE IF Cleared("colorId") THEN "default" ELSE Data.colorId]

\* C12, amended: setProfile changes only the sender's name, avatar and
\* colorId. The name is replaced by a non-empty name of the message and is
\* left unchanged when the name is absent, null or empty: it is never reset
\* to its default. Avatar and colorId are left unchanged when absent and
\* reset to their defaults (no avatar, 'default') when present with null or
\* an empty value. No vote, no other record of a participant that remains,
\* and no reveal or deck field changes.
C12_ProfileUpdate ==
    ProfileCommand =>
        /\ DeckAndRevealKept
        /\ OnlyFailuresRemoved(before.sessions, before.userList)
        /\ \A id \in Others : users[id] = before.users[id]
        /\ ev.userId \in DOMAIN users =>
              users[ev.userId] =
                  [before.users[ev.userId] EXCEPT
                      !.name = IF ~Has("name") \/ Cleared("name") THEN @ ELSE Data.name,
                      !.avatar = IF ~Has("avatar") THEN @
                                 ELSE IF Cleared("avatar") THEN Undef ELSE Data.avatar,
                      !.colorId = IF ~Has("colorId") THEN @
                                  ELSE IF Cleared("colorId") THEN "default" ELSE Data.colorId]

\* a participant with a name, an avatar and a colour sends a null name and
\* nothing else: all three stay
C12_Witness ==
    /\ ProfileCommand
    /\ Has("name") /\ Data.name = Null
    /\ ~Has("avatar") /\ ~Has("colorId")
    /\ ev.userId \in DOMAIN users
    /\ users[ev.userId].name = "Ann"
    /\ users[ev.userId].avatar = "cat"
    /\ users[ev.userId].colorId = "red"

\* the payload of the last setCustomDeck has a non-empty id, a non-empty name
\* and a sequence of cards
PayloadComplete ==
    /\ Has("deck")
    /\ Data.deck # JsNull
    /\ "id" \in DOMAIN Data.deck /\ Data.deck.id # ""
    /\ "name" \in DOMAIN Data.deck /\ Data.deck.name # ""
    /\ "cards" \in DOMAIN Data.deck /\ Data.deck.cards = "array"

\* C13: a setCustomDeck of the host is applied only if its payload has a
\* non-empty id, a non-empty name and a sequence of cards; applied, it stores
\* the payload as the custom deck and sets deckId to the payload's id; with a
\* payload that is missing or fails a check the room is unchanged and nothing
\* is broadcast.
C13_CustomDeckValidated ==
    IsCommand("setCustomDeck") /\ SenderIsHost =>
        IF PayloadComplete
        THEN StateSent /\ activeCustomDeck = Data.deck /\ deckId = Data.deck.id
        ELSE Untouched

\* the host sends a deck whose cards are no sequence into a revealed round
\* with a vote: nothing happens
C13_Witness ==
    /\ IsCommand("setCustomDeck")
    /\ SenderIsHost
    /\ Has("deck") /\ Data.deck # JsNull
    /\ "cards" \in DOMAIN Data.deck /\ Data.deck.cards = "string"
    /\ revealed
    /\ users[ev.userId].vote = "c5"
    /\ deckId = "tshirt"

\* the six message types of the switch
Recognised == {"vote", "reveal", "reset", "setProfile", "setDeck", "setCustomDeck"}

\* the last event is a message that parses and has no recognised type
NoRecognisedType ==
    /\ IsMessage
    /\ \/ ev.raw.json = "null"
       \/ /\ ev.raw.json = "object"
          /\ Get(ev.raw.data, "type") \notin Recognised

\* C14: a message that parses and whose type is missing or is none of the six
\* recognised ones changes nothing and makes the room send nothing, neither a
\* state envelope nor an error envelope, whoever sends it.
C14_Original ==
    NoRecognisedType => Untouched

\* C14, what the code does: such a message never changes the room and never
\* causes a state envelope; the only send it can cause is the error envelope
\* to its sender, and only for the JSON text null sent by a participant.
C14_NoTypeOnlyNullAnswered ==
    NoRecognisedType =>
        /\ Room = before
        /\ passes = 0
        /\ IF ev.raw.json = "null" /\ ev.userId \in DOMAIN before.users
           THEN /\ Len(log) = 1
                /\ log[1].to = ev.socket
                /\ log[1].msg = ErrorMessage("TypeError")
           ELSE log = <<>>

\* a participant sends the JSON text null and is answered with an error
C14_Witness ==
    /\ IsMessage
    /\ ev.raw = JsonNull
    /\ Len(log) = 1
    /\ log[1].ok
    /\ log[1].msg = ErrorMessage("TypeError")
    /\ Len(sessions) = 2

NoDuplicates(seq) == \A i, j \in 1..Len(seq) : seq[i] = seq[j] => i = j

AppliedSetDeck == IsCommand("setDeck") /\ SenderIsHost
AppliedSetCustomDeck == CustomDeckCommand /\ SenderIsHost

\* C16: in every state a present custom deck has the id that deckId holds;
\* an applied setDeck leaves no custom deck; an applied setCustomDeck leaves
\* its payload as the custom deck; and no other event changes deckId or the
\* custom deck, so a custom deck is present only if the last applied deck
\* change was a setCustomDeck.
C16_DeckConsistent ==
    /\ activeCustomDeck # JsNull => deckId = activeCustomDeck.id
    /\ ev # Idle =>
          /\ AppliedSetDeck => activeCustomDeck = JsNull /\ deckId = Data.deckId
          /\ AppliedSetCustomDeck =>
                activeCustomDeck = Data.deck /\ activeCustomDeck # JsNull
          /\ ~AppliedSetDeck /\ ~AppliedSetCustomDeck =>
                deckId = before.deckId /\ activeCustomDeck = before.activeCustomDeck

\* the host chooses a built-in deck while a custom deck is active
C16_Witness ==
    /\ AppliedSetDeck
    /\ before.activeCustomDeck = ValidDeck
    /\ before.deckId = "custom1"
    /\ deckId = "tshirt"
    /\ activeCustomDeck = JsNull

\* C17: whenever an event has been processed, the last state envelope that
\* each registered socket accepted is the projection of the room as it is
\* now: users in join order with votes and profiles, reveal flag, deck id and
\* custom deck.
C17_DeliveredIsCurrent ==
    \A s \in SocketsOf(sessions) : delivered[s] = StateMessage(Room)

\* a command whose first pass lost a session and a participant: the socket
\* that stays has accepted two envelopes, and the later one shows the room
\* without the participant that went
C17_Witness ==
    /\ IsMessage
    /\ passes = 2
    /\ Len(before.userList) = 2
    /\ Len(userList) = 1
    /\ \E s \in SocketsOf(sessions) :
          /\ Cardinality(Delivered(s)) = 2
          /\ delivered[s] = StateMessage(Room)
          /\ Len(delivered[s].users) = 1

\* the last event is a connect / under an id without participant / under an
\* id that has one
IsConnect == ev.kind = "connect"
ConnectOfNewId == IsConnect /\ ev.userId \notin DOMAIN before.users
ConnectOfKnownId == IsConnect /\ ev.userId \in DOMAIN before.users

\* the participant a connect creates
Fresh ==
    [id |-> ev.userId, name |-> DefaultName(ev.userId), vote |-> Null,
     avatar |-> Undef, colorId |-> "default", isSpectator |-> ev.isSpectator]

\* the sessions once the connect's socket is registered
WithNewSession == Append(before.sessions, [socket |-> ev.socket, userId |-> ev.userId])

Pos(id, seq) == CHOOSE i \in 1..Len(seq) : seq[i] = id

InOrderOf(seq, ref) ==
    /\ Range(seq) \subseteq Range(ref)
    /\ \A i, j \in 1..Len(seq) : i < j => Pos(seq[i], ref) < Pos(seq[j], ref)

PassLog(p) == SelectSeq(log, LAMBDA e : e.pass = p)
Tos(entries) == [i \in 1..Len(entries) |-> entries[i].to]
SocketSeq(ss) == [i \in 1..Len(ss) |-> ss[i].socket]

\* the sessions registered when the handler of the last event calls
\* broadcastState()
SessionsAtBroadcast ==
    CASE ev.kind = "connect" -> WithNewSession
      [] ev.kind = "close" -> OtherSessions
      [] OTHER -> before.sessions

\* C20: every pass of a broadcast attempts one send, of the same envelope,
\* on each session registered at its start, in session order, whichever
\* of the sends throw: the first pass on the sessions the handler
\* left, each further pass on the sessions of the pass before whose send did
\* not throw; and every send on a socket that does not throw is accepted.
C20_FailureDoesNotStopPass ==
    ev # Idle /\ passes >= 1 =>
        /\ Tos(PassLog(1)) = SocketSeq(SessionsAtBroadcast)
        /\ \A p \in 1..(passes - 1) :
              Tos(PassLog(p + 1)) = Tos(SelectSeq(PassLog(p), LAMBDA e : e.ok))
        /\ \A p \in 1..passes :
              \A i, j \in 1..Len(PassLog(p)) : PassLog(p)[i].msg = PassLog(p)[j].msg
        /\ \A i \in 1..Len(log) :
              log[i].pass >= 1 /\ ~log[i].ok =>
                  \A j \in 1..Len(log) : log[j].pass > log[i].pass => log[j].to # log[i].to
        /\ Tos(PassLog(passes)) = SocketSeq(sessions)

\* the send on the first session throws, the send on the second session of
\* the same pass is made and accepted
C20_Witness ==
    /\ Len(log) >= 2
    /\ log[1].pass = 1 /\ ~log[1].ok
    /\ log[2].pass = 1 /\ log[2].ok
    /\ log[2].to # log[1].to
    /\ sessions # <<>>

IsRaw == ev.kind = "raw"

\* C21 as stated: a broadcast of a pre-built message skips the
\* reconciliation: whatever send fails, no session is unregistered, no
\* participant is removed and no state envelope follows.
C21_Original ==
    IsRaw =>
        /\ sessions = before.sessions
        /\ users = before.users
        /\ userList = before.userList
        /\ passes = 1
        /\ ~StateSent

\* C21, what the code does: the pre-built message goes to every session
\* once; the sessions whose send failed are unregistered, the participants
\* left without session are removed, and if any send failed the sessions
\* that stay are sent the state.
C21_RawReconciles ==
    IsRaw =>
        /\ \A i \in 1..Len(log) : log[i].pass = 1 <=> log[i].msg = ErrorMessage("notice")
        /\ Tos(PassLog(1)) = SocketSeq(before.sessions)
        /\ OnlyFailuresRemoved(before.sessions, before.userList)
        /\ FailedSockets # {} <=> passes >= 2
        /\ passes >= 2 =>
              /\ PassLog(passes) # <<>> => PassLog(passes)[1].msg = StateMessage(Room)
              /\ Tos(PassLog(passes)) = SocketSeq(sessions)

\* a pre-built message meets one dead socket of two: its session and its
\* participant are gone and the other session has been sent the state
C21_Witness ==
    /\ IsRaw
    /\ Len(before.sessions) = 2
    /\ Len(before.userList) = 2
    /\ Len(sessions) = 1
    /\ Len(userList) = 1
    /\ passes = 2
    /\ log[Len(log)].msg = StateMessage(Room)

\* the last event is a message on a socket that was not registered when it
\* arrived: a failed send had unregistered it (a closed socket has no
\* listener any more)
MessageOnUnregistered ==
    IsMessage /\ ~Registered(ev.socket, before.sessions)

\* C22 as stated: a message on a socket that a failed send has unregistered
\* never changes the room and never triggers a broadcast, also when the
\* socket's participant id is still in the map.
C22_Original ==
    MessageOnUnregistered => Room = before /\ passes = 0

\* C22, what the code does: the listener looks the participant up by id, so
\* such a message is ignored only if no participant has the socket's id.
C22_IgnoredWithoutParticipant ==
    MessageOnUnregistered /\ ev.userId \notin DOMAIN before.users =>
        Room = before /\ passes = 0

\* a participant with two sessions lost one to a failed send; a vote that
\* arrives on the lost socket is recorded and broadcast
C22_Witness ==
    /\ MessageOnUnregistered
    /\ IsCommand("vote")
    /\ ev.userId \in DOMAIN before.users
    /\ before.users[ev.userId].vote = Null
    /\ users[ev.userId].vote = "c5"
    /\ StateSent
    /\ ~Registered(ev.socket, sessions)

\* C23: in every state a participant whose spectator flag is set has no
\* vote, and an event leaves the spectator flag of every participant that
\* was there before it and is there after it as it was.
C23_SpectatorNeverVotes ==
    /\ \A id \in DOMAIN users : users[id].isSpectator => users[id].vote = Null
    /\ ev # Idle =>
          \A id \in DOMAIN users \cap DOMAIN before.users :
              users[id].isSpectator = before.users[id].isSpectator

\* a spectator connects again, this time as a voter: it stays a spectator
\* without vote, now with two sessions
C23_Witness ==
    /\ ConnectOfKnownId
    /\ before.users[ev.userId].isSpectator
    /\ ~ev.isSpectator
    /\ ev.userId \in DOMAIN users
    /\ users[ev.userId].isSpectator
    /\ users[ev.userId].vote = Null
    /\ Len(sessions) = 2

====
